---- MODULE Spec2Model ----
(***************************************************************************)
(* A model of the Titania compiler (acoustimatics/titania): the name       *)
(* table (table.rs), the semantic pass (compiler.rs), the emitter          *)
(* (emission.rs), the scanner (scanner.rs), the parser (parser.rs) and     *)
(* the driver (main.rs).                                                   *)
(*                                                                         *)
(* Each component has its own specification over the shared variables:     *)
(*   SpecTable    push / lookup on one Table                               *)
(*   SpecCompile  compile() over a source AST, one loop iteration a step   *)
(*   SpecEmit     emit_module() over a WAT AST                             *)
(*   SpecScan     repeated Scanner::next_token over a source text          *)
(*   SpecParse    Parser::new and Parser::module, one token call a step    *)
(*   SpecDriver   compile_file() of main.rs: read, parse, compile, emit,   *)
(*                create the .wat file, write it                           *)
(* Variables a specification does not use keep their initial value.        *)
(***************************************************************************)
EXTENDS Integers, Sequences, FiniteSets, TLC

VARIABLES
    \* table.rs: the Table under test, and the last call made on it
    items,          \* Table::items
    op,             \* last Table call: <<"new">>, <<"push", n, v>>, <<"lookup", n>>
    found,          \* what the last lookup returned (an Option)
    pushed,         \* history: the (name, value) arguments of every push, in order
    \* compiler.rs: the locals of compile()
    module,         \* the src::Module given to compile
    table_type,     \* compile: table_type
    table_proc,     \* compile: table_proc
    funcs,          \* compile: funcs
    exports,        \* compile: exports
    iter,           \* number of declarations module.decls.iter() has yielded
    cresult,        \* outcome of compile: Running, Ok(module), Err(error), Panic
    \* emission.rs
    wmodule,        \* the wat::Module given to emit_module
    code,           \* Option: the String emit_module returned
    \* scanner.rs
    source,         \* the source text, a sequence of characters
    scanner,        \* Scanner: chars (the characters the iterator still holds),
                    \* current, next, line
    tok,            \* Option: the Result of the last next_token call
    tok_from,       \* history: index in source of scanner.current when the
                    \* last next_token call began
    \* parser.rs
    text,           \* the source text given to Parser::new
    parser,         \* Option: the Parser (scanner, current) once constructed
    ppc,            \* where Parser::new / Parser::module stands
    builder_module, \* module(): builder_module (BuilderModule)
    builder,        \* proc(): builder (BuilderProc)
    proc,           \* decl(): Option, the proc that proc() returned
    presult,        \* outcome of Parser::new and Parser::module
    \* main.rs: compile_file
    dpc,            \* where compile_file stands
    invoked,        \* history: the calls compile_file has made, in order
    file,           \* Option: the output file (path, contents) once created
    dresult         \* outcome of compile_file

vars == <<items, op, found, pushed,
          module, table_type, table_proc, funcs, exports, iter, cresult,
          wmodule, code, source, scanner, tok, tok_from,
          text, parser, ppc, builder_module, builder, proc, presult,
          dpc, invoked, file, dresult>>

tableVars == <<items, op, found, pushed>>
compileVars == <<module, table_type, table_proc, funcs, exports, iter, cresult>>
emitVars == <<wmodule, code>>
scanVars == <<source, scanner, tok, tok_from>>
parseVars == <<text, parser, ppc, builder_module, builder, proc, presult>>
driverVars == <<dpc, invoked, file, dresult>>

-----------------------------------------------------------------------------
(* Bounds of the model *)

MaxItems == 3       \* pushes made on the Table under test
MaxDecls == 3       \* declarations of a source module
MaxFuncs == 2       \* funcs of a WAT module handed to emit_module
MaxExports == 2     \* exports of a WAT module handed to emit_module
MaxSrcLen == 5      \* characters of a source text handed to the scanner
MaxProcs == 2       \* PROCEDURE declarations of a source text handed to the parser

\* Option<T>: None is the empty sequence, Some(x) the one-element sequence
None == <<>>
Some(x) == <<x>>
IsSome(o) == o # None
Unwrap(o) == o[1]

\* Sequences over S of length at most n
SeqUpTo(S, n) == UNION {[1..k -> S] : k \in 0..n}

\* Names used as inputs
ProcNames == {"P", "Q", "R"}
ModuleNames == {"M", "N"}
TypeIds == {"INTEGER", "REAL"}
TableNames == {"a", "b"}
TableValues == {"v", "w"}

-----------------------------------------------------------------------------
(* table.rs *)

\* Item::new
Item(name, value) == [name |-> name, value |-> value]

\* Table::new
TableNew == <<>>

\* A faulty push that overwrites the entry of the same name when there is one
push_replacing(t, name, value) ==
    IF \E i \in 1..Len(t) : t[i].name = name
    THEN [i \in 1..Len(t) |-> IF t[i].name = name THEN Item(name, value) ELSE t[i]]
    ELSE Append(t, Item(name, value))

\* Table::push: unconditional append
push(t, name, value) ==
    Append(t, Item(name, value))

\* A faulty lookup that scans from the oldest entry
RECURSIVE lookup_oldest(_, _)
lookup_oldest(t, name) ==
    IF t = <<>> THEN None
    ELSE IF Head(t).name = name THEN Some(Head(t).value)
    ELSE lookup_oldest(Tail(t), name)

\* Table::lookup: items.iter().rev().find(|item| item.name == name)
RECURSIVE lookup(_, _)
lookup(t, name) ==
    IF t = <<>> THEN None
    ELSE IF t[Len(t)].name = name THEN Some(t[Len(t)].value)
    ELSE lookup(SubSeq(t, 1, Len(t) - 1), name)

-----------------------------------------------------------------------------
(* types.rs and ast.rs values *)

\* Type::new_int
TypeInt == [tag |-> "Int"]

\* A faulty signature that forgets the return type
TypeProc_void(t_return) == [t_return |-> None]

\* TypeProc::new
TypeProc(t_return) == [t_return |-> t_return]

\* wat::Type::I32
I32 == "I32"

\* src::Proc, built by BuilderProc
DeclProc(name, line, export, tid_return) ==
    [name |-> name, line |-> line, export |-> export, tid_return |-> tid_return]

\* wat::Func, built by BuilderFunc
Func(name, result) == [name |-> name, result |-> result]

\* wat::Export
Export(name) == [name |-> name]

\* wat::Module
WatModule(name, fs, es) == [name |-> name, funcs |-> fs, exports |-> es]

\* Result values: Ok(v), Err(Error{tag, line}), and a panic (unimplemented!())
Ok(v) == [kind |-> "Ok", value |-> v]
Err(tag, line) == [kind |-> "Err", tag |-> tag, line |-> line]
Panic == [kind |-> "Panic"]
Running == [kind |-> "Running"]

\* Error::name_redefinition
name_redefinition(name, line) == Err(<<"NameRedefinition", name>>, line)

-----------------------------------------------------------------------------
(* scanner.rs *)

Letters ==
    {"a", "b", "c", "d", "e", "f", "g", "h", "i", "j", "k", "l", "m",
     "n", "o", "p", "q", "r", "s", "t", "u", "v", "w", "x", "y", "z",
     "A", "B", "C", "D", "E", "F", "G", "H", "I", "J", "K", "L", "M",
     "N", "O", "P", "Q", "R", "S", "T", "U", "V", "W", "X", "Y", "Z"}

Digits == {"0", "1", "2", "3", "4", "5", "6", "7", "8", "9"}

\* is_alpha: c.is_ascii_alphabetic()
is_alpha(c) == c \in Letters

\* is_digit: c.is_ascii_digit()
is_digit(c) == c \in Digits

\* is_whitespace
is_whitespace(c) == c = " " \/ c = "\t" \/ c = "\r" \/ c = "\n"

\* TokenTag
TagBegin == <<"Begin">>
TagColon == <<"Colon">>
TagDot == <<"Dot">>
TagEnd == <<"End">>
TagEof == <<"Eof">>
TagIdentifier(id) == <<"Identifier", id>>
TagInteger(n) == <<"Integer", n>>
TagModule == <<"Module">>
TagProcedure == <<"Procedure">>
TagReturn == <<"Return">>
TagSemicolon == <<"Semicolon">>
TagStar == <<"Star">>

\* Token::new
Token(tag, line) == [tag |-> tag, line |-> line]

\* ErrorTag
UnterminatedComment == <<"UnterminatedComment">>
UnexpectedCharacter(c) == <<"UnexpectedCharacter", c>>

\* A faulty advance that counts a line when it is called at the end of input
advance_counting_eof(sc) ==
    [chars |-> IF sc.chars = <<>> THEN <<>> ELSE Tail(sc.chars),
     current |-> sc.next,
     next |-> IF sc.chars = <<>> THEN None ELSE Some(Head(sc.chars)),
     line |-> IF sc.current \in {Some("\n"), None} THEN sc.line + 1 ELSE sc.line]

\* A faulty advance that never counts a line
advance_no_line(sc) ==
    [chars |-> IF sc.chars = <<>> THEN <<>> ELSE Tail(sc.chars),
     current |-> sc.next,
     next |-> IF sc.chars = <<>> THEN None ELSE Some(Head(sc.chars)),
     line |-> sc.line]

\* Scanner::advance
advance(sc) ==
    [chars |-> IF sc.chars = <<>> THEN <<>> ELSE Tail(sc.chars),
     current |-> sc.next,
     next |-> IF sc.chars = <<>> THEN None ELSE Some(Head(sc.chars)),
     line |-> IF sc.current = Some("\n") THEN sc.line + 1 ELSE sc.line]

\* Scanner::new
ScannerNew(src) ==
    advance(advance([chars |-> src, current |-> None, next |-> None, line |-> 1]))

\* A faulty skip loop that counts nested comments: an inner opening pair
\* needs a closing pair of its own
RECURSIVE skip_nested(_, _)
skip_nested(sc, depth) ==
    IF sc.current = Some("(") /\ sc.next = Some("*")
    THEN skip_nested(advance(advance(sc)), depth + 1)
    ELSE IF sc.current = Some("*") /\ sc.next = Some(")") /\ depth > 0
    THEN skip_nested(advance(advance(sc)), depth - 1)
    ELSE IF IsSome(sc.current) /\ (is_whitespace(Unwrap(sc.current)) \/ depth > 0)
    THEN skip_nested(advance(sc), depth)
    ELSE IF sc.current = None /\ depth > 0
    THEN [res |-> Err(UnterminatedComment, sc.line), sc |-> sc]
    ELSE [res |-> Ok(<<>>), sc |-> sc]

\* Scanner::skip_whitespace_comments, the loop: the arms of the match in order
RECURSIVE skip_loop(_, _)
skip_loop(sc, in_comment) ==
    IF sc.current = Some("(") /\ sc.next = Some("*") /\ ~ in_comment
    THEN skip_loop(advance(advance(sc)), TRUE)
    ELSE IF sc.current = Some("*") /\ sc.next = Some(")") /\ in_comment
    THEN skip_loop(advance(advance(sc)), FALSE)
    ELSE IF IsSome(sc.current) /\ (is_whitespace(Unwrap(sc.current)) \/ in_comment)
    THEN skip_loop(advance(sc), in_comment)
    ELSE IF sc.current = None /\ in_comment
    THEN [res |-> Err(UnterminatedComment, sc.line), sc |-> sc]
    ELSE [res |-> Ok(<<>>), sc |-> sc]

\* The nesting skip, entered outside any comment
skip_whitespace_comments_nested(sc) == skip_nested(sc, 0)

\* Scanner::skip_whitespace_comments
skip_whitespace_comments(sc) == skip_loop(sc, FALSE)

\* Scanner::identifier, the loop collecting the lexeme
RECURSIVE identifier_loop(_, _)
identifier_loop(sc, lexeme) ==
    IF IsSome(sc.current)
       /\ (is_alpha(Unwrap(sc.current)) \/ is_digit(Unwrap(sc.current)))
    THEN identifier_loop(advance(sc), lexeme \o Unwrap(sc.current))
    ELSE [sc |-> sc, lexeme |-> lexeme]

\* Scanner::identifier, the keyword match
keyword_tag(lexeme) ==
    IF lexeme = "BEGIN" THEN TagBegin
    ELSE IF lexeme = "END" THEN TagEnd
    ELSE IF lexeme = "MODULE" THEN TagModule
    ELSE IF lexeme = "PROCEDURE" THEN TagProcedure
    ELSE IF lexeme = "RETURN" THEN TagReturn
    ELSE TagIdentifier(lexeme)

\* Scanner::identifier
identifier(sc) ==
    LET line == sc.line
        r == identifier_loop(sc, "")
    IN  [res |-> Ok(Token(keyword_tag(r.lexeme), line)), sc |-> r.sc]

\* Scanner::number, the loop collecting the lexeme
RECURSIVE number_loop(_, _)
number_loop(sc, lexeme) ==
    IF IsSome(sc.current) /\ is_digit(Unwrap(sc.current))
    THEN number_loop(advance(sc), lexeme \o Unwrap(sc.current))
    ELSE [sc |-> sc, lexeme |-> lexeme]

\* Scanner::number
number(sc) ==
    LET line == sc.line
        r == number_loop(sc, "")
    IN  [res |-> Ok(Token(TagInteger(r.lexeme), line)), sc |-> r.sc]

\* A faulty symbol that returns a "*" without consuming it
symbol_star_peek(sc) ==
    LET line == sc.line
        c == sc.current
    IN  IF c = None THEN [res |-> Ok(Token(TagEof, line)), sc |-> advance(sc)]
        ELSE IF c = Some(":") THEN [res |-> Ok(Token(TagColon, line)), sc |-> advance(sc)]
        ELSE IF c = Some(".") THEN [res |-> Ok(Token(TagDot, line)), sc |-> advance(sc)]
        ELSE IF c = Some(";") THEN [res |-> Ok(Token(TagSemicolon, line)), sc |-> advance(sc)]
        ELSE IF c = Some("*") THEN [res |-> Ok(Token(TagStar, line)), sc |-> sc]
        ELSE [res |-> Err(UnexpectedCharacter(Unwrap(c)), sc.line), sc |-> sc]

\* A faulty symbol that consumes the character it rejects
symbol_consuming(sc) ==
    LET line == sc.line
        c == sc.current
    IN  IF c = None THEN [res |-> Ok(Token(TagEof, line)), sc |-> advance(sc)]
        ELSE IF c = Some(":") THEN [res |-> Ok(Token(TagColon, line)), sc |-> advance(sc)]
        ELSE IF c = Some(".") THEN [res |-> Ok(Token(TagDot, line)), sc |-> advance(sc)]
        ELSE IF c = Some(";") THEN [res |-> Ok(Token(TagSemicolon, line)), sc |-> advance(sc)]
        ELSE IF c = Some("*") THEN [res |-> Ok(Token(TagStar, line)), sc |-> advance(sc)]
        ELSE [res |-> Err(UnexpectedCharacter(Unwrap(c)), sc.line), sc |-> advance(sc)]

\* Scanner::symbol
symbol(sc) ==
    LET line == sc.line
        c == sc.current
    IN  IF c = None THEN [res |-> Ok(Token(TagEof, line)), sc |-> advance(sc)]
        ELSE IF c = Some(":") THEN [res |-> Ok(Token(TagColon, line)), sc |-> advance(sc)]
        ELSE IF c = Some(".") THEN [res |-> Ok(Token(TagDot, line)), sc |-> advance(sc)]
        ELSE IF c = Some(";") THEN [res |-> Ok(Token(TagSemicolon, line)), sc |-> advance(sc)]
        ELSE IF c = Some("*") THEN [res |-> Ok(Token(TagStar, line)), sc |-> advance(sc)]
        ELSE [res |-> Err(UnexpectedCharacter(Unwrap(c)), sc.line), sc |-> sc]

\* Scanner::next_token: the Result and the scanner it leaves
next_token(sc0) ==
    LET s == skip_whitespace_comments(sc0)
        sc == s.sc
    IN  IF s.res.kind = "Err" THEN s
        ELSE IF IsSome(sc.current) /\ is_alpha(Unwrap(sc.current)) THEN identifier(sc)
        ELSE IF IsSome(sc.current) /\ is_digit(Unwrap(sc.current)) THEN number(sc)
        ELSE symbol(sc)

\* The index in src of the scanner's current character (Len(src) + 1 at the end)
CurPos(src, sc) ==
    Len(src) + 1 - Len(sc.chars)
        - (IF IsSome(sc.next) THEN 1 ELSE 0) - (IF IsSome(sc.current) THEN 1 ELSE 0)

\* Source texts of the spec's examples
SrcThreeLines == <<"a", "\n", "b", "\n", "c">>
SrcOpenComment == <<"(", "*", "*">>
SrcCommentThenId == <<"(", "*", " ", "x", " ", "*", ")", " ", "i", "d">>
SrcTestComment ==
    <<" ", "\t", "(", "*", " ", "a", " ", "c", "o", "m", "m", "e", "n", "t", " ",
      "\r", "\n", "*", ")", "\r", "\n", " ", " ", "i", "d">>

\* The characters of the generated source texts
ScanAlphabet == {"a", "1", "\n", "(", "*", ")"}

\* The source texts handed to the scanner: up to n characters, and the examples
ScanSources(n) ==
    SeqUpTo(ScanAlphabet, n)
        \cup {SrcThreeLines, SrcOpenComment, SrcCommentThenId, SrcTestComment}

\* The variables of a component its specification does not run
InitTableIdle ==
    /\ items = TableNew
    /\ op = <<"new">>
    /\ found = None
    /\ pushed = <<>>

InitCompileIdle ==
    /\ module = [name |-> "M", decls |-> <<>>]
    /\ table_type = TableNew
    /\ table_proc = TableNew
    /\ funcs = <<>>
    /\ exports = <<>>
    /\ iter = 0
    /\ cresult = Running

InitEmitIdle ==
    /\ wmodule = WatModule("M", <<>>, <<>>)
    /\ code = None

InitParseIdle ==
    /\ text = <<>>
    /\ parser = None
    /\ ppc = "idle"
    /\ builder_module = [name |-> "", decls |-> <<>>]
    /\ builder = [name |-> "", line |-> 0, export |-> FALSE, tid_return |-> None]
    /\ proc = None
    /\ presult = Running

InitScanIdle ==
    /\ source = <<>>
    /\ scanner = ScannerNew(<<>>)
    /\ tok = None
    /\ tok_from = 1

InitDriverIdle ==
    /\ dpc = "idle"
    /\ invoked = <<>>
    /\ file = None
    /\ dresult = Running

\* Scanner::new(source)
InitScan ==
    /\ source \in ScanSources(MaxSrcLen)
    /\ scanner = ScannerNew(source)
    /\ tok = None
    /\ tok_from = 1
    /\ InitTableIdle
    /\ InitCompileIdle
    /\ InitEmitIdle
    /\ InitParseIdle
    /\ InitDriverIdle

\* scanner.next_token()
NextToken ==
    LET r == next_token(scanner)
    IN  /\ tok' = Some(r.res)
        /\ scanner' = r.sc
        /\ tok_from' = CurPos(source, scanner)
        /\ UNCHANGED source
        /\ UNCHANGED <<tableVars, compileVars, emitVars, parseVars, driverVars>>

NextScan == NextToken

SpecScan == InitScan /\ [][NextScan]_vars

-----------------------------------------------------------------------------
(* Properties of the scanner *)

\* The number of newline characters of src before index p
NewlinesBefore(src, p) == Cardinality({i \in 1..(p - 1) : src[i] = "\n"})

\* The number of characters of a token's lexeme
TokenLen(tag) ==
    IF tag[1] \in {"Identifier", "Integer"} THEN Len(tag[2])
    ELSE IF tag = TagBegin THEN 5
    ELSE IF tag = TagEnd THEN 3
    ELSE IF tag = TagModule THEN 6
    ELSE IF tag = TagProcedure THEN 9
    ELSE IF tag = TagReturn THEN 6
    ELSE IF tag = TagEof THEN 0
    ELSE 1

\* The last next_token call returned a token
TokOk == IsSome(tok) /\ tok[1].kind = "Ok"

\* The last next_token call failed
TokErr == IsSome(tok) /\ tok[1].kind = "Err"

\* The index in source of the first character of the token last returned
\* (the scanner stands right after its lexeme)
TokStart == CurPos(source, scanner) - TokenLen(tok[1].value.tag)

\* C8: every token returned by next_token carries the line on which its first
\* character stands: 1 plus the number of newlines before that character in
\* the source, newlines inside skipped comments included; "a\nb\nc" yields
\* identifiers a, b, c with lines 1, 2, 3.
C8_TokenLine ==
    TokOk =>
        /\ tok[1].value.line = 1 + NewlinesBefore(source, TokStart)
        /\ source = SrcThreeLines =>
             tok[1].value \in {Token(TagIdentifier("a"), 1), Token(TagIdentifier("b"), 2),
                               Token(TagIdentifier("c"), 3), Token(TagEof, 3)}

C8_Witness ==
    /\ source = SrcThreeLines
    /\ tok = Some(Ok(Token(TagIdentifier("c"), 3)))

\* A second witness of C8: a newline inside a skipped comment is counted
C8_WitnessComment ==
    /\ source = SrcTestComment
    /\ tok = Some(Ok(Token(TagIdentifier("id"), 3)))

\* Where the text to skip from index p ends: whitespace is skipped, a comment
\* opened at p runs to the first closing pair at or after p + 2, and skipping
\* goes on after it. 0 when a comment opened on the way is never closed.
RECURSIVE SkipEnd(_, _)
SkipEnd(src, p) ==
    IF p > Len(src) THEN p
    ELSE IF is_whitespace(src[p]) THEN SkipEnd(src, p + 1)
    ELSE IF p + 1 <= Len(src) /\ src[p] = "(" /\ src[p + 1] = "*"
    THEN LET closes == {q \in (p + 2)..(Len(src) - 1) :
                            src[q] = "*" /\ src[q + 1] = ")"}
         IN  IF closes = {} THEN 0
             ELSE SkipEnd(src, (CHOOSE q \in closes : \A r \in closes : q <= r) + 2)
    ELSE p

\* C9: comments do not nest: a comment is closed by the first closing pair
\* after its two opening characters whatever it contains, and next_token
\* returns the first token after the comment; when the input ends inside a
\* comment (as in "(**" or "(*)") next_token fails with UnterminatedComment.
C9_CommentsDoNotNest ==
    IsSome(tok) =>
        LET e == SkipEnd(source, tok_from)
        IN  /\ (e = 0) <=> (TokErr /\ tok[1].tag = UnterminatedComment)
            /\ (e # 0 /\ TokOk) => TokStart = e
            /\ (e # 0 /\ TokErr) =>
                 /\ CurPos(source, scanner) = e
                 /\ tok[1].tag = UnexpectedCharacter(source[e])
            /\ (source \in {SrcOpenComment, <<"(", "*", ")">>}) =>
                 (TokErr /\ tok[1].tag = UnterminatedComment) \/ tok_from > Len(source)
            /\ (source = SrcCommentThenId /\ tok_from = 1) =>
                 tok[1] = Ok(Token(TagIdentifier("id"), 1))

\* An inner opening pair has no effect: the comment of "(*(*)" is closed
C9_Witness ==
    /\ source = <<"(", "*", "(", "*", ")">>
    /\ tok_from = 1
    /\ tok = Some(Ok(Token(TagEof, 1)))

\* The Result of the k-th of k successive next_token calls made from sc
RECURSIVE NthCall(_, _)
NthCall(sc, k) ==
    IF k <= 1 THEN next_token(sc).res ELSE NthCall(next_token(sc).sc, k - 1)

\* C13: a failing next_token call does not corrupt the scanner beyond that
\* call. After a call failed with UnexpectedCharacter(c) the scanner's current
\* character is c and its line is the error's line, and each later call fails
\* with the same error at the same line; after a call failed with
\* UnterminatedComment the input is exhausted and each later call returns Eof.
C13_FailureLeavesScanner ==
    TokErr =>
        LET e == tok[1]
        IN  /\ e.tag[1] = "UnexpectedCharacter" =>
                /\ scanner.current = Some(e.tag[2])
                /\ scanner.line = e.line
                /\ \A k \in 1..MaxSrcLen : NthCall(scanner, k) = e
            /\ e.tag[1] = "UnterminatedComment" =>
                /\ scanner.current = None
                /\ CurPos(source, scanner) = Len(source) + 1
                /\ \A k \in 1..MaxSrcLen : NthCall(scanner, k).kind = "Ok"
                /\ \A k \in 1..MaxSrcLen : NthCall(scanner, k).value.tag = TagEof

\* "\n(" and more: the call made at the "(" of line 2, after an earlier call
\* had already failed there, fails with UnexpectedCharacter("(") at line 2
C13_Witness ==
    /\ Len(source) >= 2
    /\ source[1] = "\n"
    /\ source[2] = "("
    /\ tok_from = 2
    /\ tok = Some(Err(UnexpectedCharacter("("), 2))
    /\ scanner.current = Some("(")

\* "(*" and more, never closed: the call after the one that failed with
\* UnterminatedComment returned Eof
C13_WitnessComment ==
    /\ Len(source) >= 2
    /\ SubSeq(source, 1, 2) = <<"(", "*">>
    /\ NthCall(ScannerNew(source), 1).kind = "Err"
    /\ tok_from = Len(source) + 1
    /\ TokOk
    /\ tok[1].value.tag = TagEof

\* One of the next k next_token calls made from sc returns Eof or an error
RECURSIVE EndsWithin(_, _)
EndsWithin(sc, k) ==
    IF k <= 0 THEN FALSE
    ELSE LET r == next_token(sc)
         IN  \/ r.res.kind = "Err"
             \/ r.res.value.tag = TagEof
             \/ EndsWithin(r.sc, k - 1)

\* The characters of the source the scanner has not consumed
Remaining(src, sc) == Len(src) + 1 - CurPos(src, sc)

\* C18: every next_token call returns (a token or an error, the scanner never
\* moving backwards nor past the end); a call that returned a token other
\* than Eof consumed at least one character; and from a scanner with r
\* characters left Eof or an error is returned within r + 1 calls, so within
\* n + 1 calls on a source of n characters.
C18_ScannerProgress ==
    /\ LET r == next_token(scanner)
       IN  /\ r.res.kind \in {"Ok", "Err"}
           /\ CurPos(source, scanner) <= CurPos(source, r.sc)
           /\ CurPos(source, r.sc) <= Len(source) + 1
    /\ (TokOk /\ tok[1].value.tag # TagEof) => CurPos(source, scanner) > tok_from
    /\ EndsWithin(scanner, Remaining(source, scanner) + 1)
    /\ EndsWithin(ScannerNew(source), Len(source) + 1)

\* "***": three one-character tokens, and the fourth call, made at the end of
\* the source, returned Eof
C18_Witness ==
    /\ source = <<"*", "*", "*">>
    /\ tok_from = 4
    /\ tok = Some(Ok(Token(TagEof, 1)))
    /\ ~EndsWithin(ScannerNew(source), 3)

-----------------------------------------------------------------------------
(* parser.rs *)

\* ErrorTag::ExpectedToken and ErrorTag::ExpectedIdentifier
ExpectedToken(expected, got) == <<"ExpectedToken", expected, got>>
ExpectedIdentifier(got) == <<"ExpectedIdentifier", got>>

\* BuilderModule::new and BuilderProc::new
BuilderModuleNew == [name |-> "", decls |-> <<>>]
BuilderProcNew == [name |-> "", line |-> 0, export |-> FALSE, tid_return |-> None]

\* BuilderProc::build and BuilderModule::build: the value moved out
build_proc(b) == DeclProc(b.name, b.line, b.export, b.tid_return)
build_module(b) == [name |-> b.name, decls |-> b.decls]

\* Parser::err_current: the error carries the current token's line
err_current(p, tag) == Err(tag, p.current.line)

\* Parser::advance: on a scanner error current keeps its token
parser_advance(p) ==
    LET r == next_token(p.scanner)
    IN  IF r.res.kind = "Err"
        THEN [res |-> r.res, p |-> [scanner |-> r.sc, current |-> p.current]]
        ELSE [res |-> Ok(<<>>), p |-> [scanner |-> r.sc, current |-> r.res.value]]

\* A faulty expect that consumes the token it rejects
expect_consuming(p, expected) ==
    LET a == parser_advance(p)
    IN  IF a.res.kind = "Err" THEN a
        ELSE IF p.current.tag = expected THEN a
        ELSE [res |-> err_current(a.p, ExpectedToken(expected, p.current.tag)), p |-> a.p]

\* Parser::expect
expect(p, expected) ==
    IF p.current.tag = expected
    THEN parser_advance(p)
    ELSE [res |-> err_current(p, ExpectedToken(expected, p.current.tag)), p |-> p]

\* Parser::expect_identifier: Ok((name, line))
expect_identifier(p) ==
    IF p.current.tag[1] = "Identifier"
    THEN LET name == p.current.tag[2]
             line == p.current.line
             a == parser_advance(p)
         IN  IF a.res.kind = "Err" THEN a
             ELSE [res |-> Ok(<<name, line>>), p |-> a.p]
    ELSE [res |-> err_current(p, ExpectedIdentifier(p.current.tag)), p |-> p]

\* A faulty is_match that advances whatever the current token is
is_match_always(p, tag) ==
    LET a == parser_advance(p)
    IN  IF a.res.kind = "Err" THEN a
        ELSE [res |-> Ok(p.current.tag = tag), p |-> a.p]

\* A faulty is_match that reports the match but leaves the token in place
is_match_no_advance(p, tag) ==
    [res |-> Ok(p.current.tag = tag), p |-> p]

\* Parser::is_match
is_match(p, tag) ==
    IF p.current.tag = tag
    THEN LET a == parser_advance(p)
         IN  IF a.res.kind = "Err" THEN a
             ELSE [res |-> Ok(TRUE), p |-> a.p]
    ELSE [res |-> Ok(FALSE), p |-> p]

\* A call of module() failed: the error is propagated by `?`
ParseFail(r) ==
    /\ presult' = r.res
    /\ parser' = Some(r.p)
    /\ ppc' = "failed"
    /\ UNCHANGED <<builder_module, builder, proc>>

\* Parser::new: the scanner and the first token
ParserNew ==
    /\ ppc = "new"
    /\ LET sc == ScannerNew(text)
           r == next_token(sc)
       IN  IF r.res.kind = "Err"
           THEN /\ presult' = r.res
                /\ ppc' = "failed"
                /\ UNCHANGED parser
           ELSE /\ parser' = Some([scanner |-> r.sc, current |-> r.res.value])
                /\ ppc' = "module"
                /\ UNCHANGED presult
    /\ UNCHANGED <<text, builder_module, builder, proc>>
    /\ UNCHANGED <<tableVars, compileVars, emitVars, scanVars, driverVars>>

\* module(): BuilderModule::new(), expect(TokenTag::Module)
ModuleKeyword ==
    /\ ppc = "module"
    /\ LET r == expect(Unwrap(parser), TagModule)
       IN  IF r.res.kind = "Err" THEN ParseFail(r)
           ELSE /\ parser' = Some(r.p)
                /\ builder_module' = BuilderModuleNew
                /\ ppc' = "module_name"
                /\ UNCHANGED <<builder, proc, presult>>
    /\ UNCHANGED text
    /\ UNCHANGED <<tableVars, compileVars, emitVars, scanVars, driverVars>>

\* module(): expect_identifier(), set_name
ModuleName ==
    /\ ppc = "module_name"
    /\ LET r == expect_identifier(Unwrap(parser))
       IN  IF r.res.kind = "Err" THEN ParseFail(r)
           ELSE /\ parser' = Some(r.p)
                /\ builder_module' = [builder_module EXCEPT !.name = r.res.value[1]]
                /\ ppc' = "module_semicolon"
                /\ UNCHANGED <<builder, proc, presult>>
    /\ UNCHANGED text
    /\ UNCHANGED <<tableVars, compileVars, emitVars, scanVars, driverVars>>

\* module(): expect(TokenTag::Semicolon)
ModuleSemicolon ==
    /\ ppc = "module_semicolon"
    /\ LET r == expect(Unwrap(parser), TagSemicolon)
       IN  IF r.res.kind = "Err" THEN ParseFail(r)
           ELSE /\ parser' = Some(r.p)
                /\ ppc' = "decl"
                /\ UNCHANGED <<builder_module, builder, proc, presult>>
    /\ UNCHANGED text
    /\ UNCHANGED <<tableVars, compileVars, emitVars, scanVars, driverVars>>

\* decl(): is_match(TokenTag::Procedure); true enters proc() with a new
\* BuilderProc, false returns None and ends the loop of module()
DeclProcedure ==
    /\ ppc = "decl"
    /\ LET r == is_match(Unwrap(parser), TagProcedure)
       IN  IF r.res.kind = "Err" THEN ParseFail(r)
           ELSE /\ parser' = Some(r.p)
                /\ IF r.res.value
                   THEN /\ builder' = BuilderProcNew
                        /\ ppc' = "proc_name"
                   ELSE /\ UNCHANGED builder
                        /\ ppc' = "module_end"
                /\ UNCHANGED <<builder_module, proc, presult>>
    /\ UNCHANGED text
    /\ UNCHANGED <<tableVars, compileVars, emitVars, scanVars, driverVars>>

\* proc(): expect_identifier(); name and line are set with the export flag
ProcName ==
    /\ ppc = "proc_name"
    /\ LET r == expect_identifier(Unwrap(parser))
       IN  IF r.res.kind = "Err" THEN ParseFail(r)
           ELSE /\ parser' = Some(r.p)
                /\ builder' = [builder EXCEPT !.name = r.res.value[1],
                                              !.line = r.res.value[2]]
                /\ ppc' = "proc_star"
                /\ UNCHANGED <<builder_module, proc, presult>>
    /\ UNCHANGED text
    /\ UNCHANGED <<tableVars, compileVars, emitVars, scanVars, driverVars>>

\* proc(): is_match(TokenTag::Star), set_name(..).set_export(export)
ProcStar ==
    /\ ppc = "proc_star"
    /\ LET r == is_match(Unwrap(parser), TagStar)
       IN  IF r.res.kind = "Err" THEN ParseFail(r)
           ELSE /\ parser' = Some(r.p)
                /\ builder' = [builder EXCEPT !.export = r.res.value]
                /\ ppc' = "proc_colon"
                /\ UNCHANGED <<builder_module, proc, presult>>
    /\ UNCHANGED text
    /\ UNCHANGED <<tableVars, compileVars, emitVars, scanVars, driverVars>>

\* proc(): is_match(TokenTag::Colon)
ProcColon ==
    /\ ppc = "proc_colon"
    /\ LET r == is_match(Unwrap(parser), TagColon)
       IN  IF r.res.kind = "Err" THEN ParseFail(r)
           ELSE /\ parser' = Some(r.p)
                /\ ppc' = IF r.res.value THEN "proc_type" ELSE "proc_semicolon"
                /\ UNCHANGED <<builder_module, builder, proc, presult>>
    /\ UNCHANGED text
    /\ UNCHANGED <<tableVars, compileVars, emitVars, scanVars, driverVars>>

\* proc(): expect_identifier(), set_tid_return
ProcType ==
    /\ ppc = "proc_type"
    /\ LET r == expect_identifier(Unwrap(parser))
       IN  IF r.res.kind = "Err" THEN ParseFail(r)
           ELSE /\ parser' = Some(r.p)
                /\ builder' = [builder EXCEPT !.tid_return = Some(r.res.value[1])]
                /\ ppc' = "proc_semicolon"
                /\ UNCHANGED <<builder_module, proc, presult>>
    /\ UNCHANGED text
    /\ UNCHANGED <<tableVars, compileVars, emitVars, scanVars, driverVars>>

\* proc(): expect(TokenTag::Semicolon)
ProcSemicolon ==
    /\ ppc = "proc_semicolon"
    /\ LET r == expect(Unwrap(parser), TagSemicolon)
       IN  IF r.res.kind = "Err" THEN ParseFail(r)
           ELSE /\ parser' = Some(r.p)
                /\ ppc' = "proc_end"
                /\ UNCHANGED <<builder_module, builder, proc, presult>>
    /\ UNCHANGED text
    /\ UNCHANGED <<tableVars, compileVars, emitVars, scanVars, driverVars>>

\* proc(): expect(TokenTag::End), Ok(builder.build())
ProcEnd ==
    /\ ppc = "proc_end"
    /\ LET r == expect(Unwrap(parser), TagEnd)
       IN  IF r.res.kind = "Err" THEN ParseFail(r)
           ELSE /\ parser' = Some(r.p)
                /\ proc' = Some(build_proc(builder))
                /\ builder' = BuilderProcNew
                /\ ppc' = "decl_semicolon"
                /\ UNCHANGED <<builder_module, presult>>
    /\ UNCHANGED text
    /\ UNCHANGED <<tableVars, compileVars, emitVars, scanVars, driverVars>>

\* decl(): expect(TokenTag::Semicolon), Some(Decl::Proc(proc)); module():
\* builder_module.add_decl(decl)
DeclSemicolon ==
    /\ ppc = "decl_semicolon"
    /\ LET r == expect(Unwrap(parser), TagSemicolon)
       IN  IF r.res.kind = "Err" THEN ParseFail(r)
           ELSE /\ parser' = Some(r.p)
                /\ builder_module' =
                      [builder_module EXCEPT !.decls = Append(@, Unwrap(proc))]
                /\ proc' = None
                /\ ppc' = "decl"
                /\ UNCHANGED <<builder, presult>>
    /\ UNCHANGED text
    /\ UNCHANGED <<tableVars, compileVars, emitVars, scanVars, driverVars>>

\* module(): expect(TokenTag::End)
ModuleEnd ==
    /\ ppc = "module_end"
    /\ LET r == expect(Unwrap(parser), TagEnd)
       IN  IF r.res.kind = "Err" THEN ParseFail(r)
           ELSE /\ parser' = Some(r.p)
                /\ ppc' = "module_dot"
                /\ UNCHANGED <<builder_module, builder, proc, presult>>
    /\ UNCHANGED text
    /\ UNCHANGED <<tableVars, compileVars, emitVars, scanVars, driverVars>>

\* module(): expect(TokenTag::Dot)
ModuleDot ==
    /\ ppc = "module_dot"
    /\ LET r == expect(Unwrap(parser), TagDot)
       IN  IF r.res.kind = "Err" THEN ParseFail(r)
           ELSE /\ parser' = Some(r.p)
                /\ ppc' = "module_eof"
                /\ UNCHANGED <<builder_module, builder, proc, presult>>
    /\ UNCHANGED text
    /\ UNCHANGED <<tableVars, compileVars, emitVars, scanVars, driverVars>>

\* module(): expect(TokenTag::Eof), Ok(builder_module.build())
ModuleEof ==
    /\ ppc = "module_eof"
    /\ LET r == expect(Unwrap(parser), TagEof)
       IN  IF r.res.kind = "Err" THEN ParseFail(r)
           ELSE /\ parser' = Some(r.p)
                /\ presult' = Ok(build_module(builder_module))
                /\ builder_module' = BuilderModuleNew
                /\ ppc' = "done"
                /\ UNCHANGED <<builder, proc>>
    /\ UNCHANGED text
    /\ UNCHANGED <<tableVars, compileVars, emitVars, scanVars, driverVars>>

\* The lexemes the generated source texts are made of
Lexeme(w) ==
    CASE w = "MODULE" -> <<"M", "O", "D", "U", "L", "E">>
      [] w = "PROCEDURE" -> <<"P", "R", "O", "C", "E", "D", "U", "R", "E">>
      [] w = "END" -> <<"E", "N", "D">>
      [] w = "INTEGER" -> <<"I", "N", "T", "E", "G", "E", "R">>
      [] OTHER -> <<w>>

\* The text of a sequence of lexemes: a newline after each ";", nothing after
\* a "*", a blank after any other lexeme
RECURSIVE TextOf(_)
TextOf(ws) ==
    IF ws = <<>> THEN <<>>
    ELSE Lexeme(Head(ws))
            \o (IF Head(ws) = ";" THEN <<"\n">>
                ELSE IF Head(ws) = "*" THEN <<>> ELSE <<" ">>)
            \o TextOf(Tail(ws))

\* The lexemes of one procedure declaration
DeclWords(name, export, typed) ==
    <<"PROCEDURE", name>> \o (IF export THEN <<"*">> ELSE <<>>)
        \o (IF typed THEN <<":", "INTEGER">> ELSE <<>>) \o <<";", "END", ";">>

RECURSIVE DeclsWords(_, _)
DeclsWords(ds, i) ==
    IF i > Len(ds) THEN <<>>
    ELSE DeclWords(IF i % 2 = 1 THEN "P" ELSE "Q", ds[i][1], ds[i][2])
            \o DeclsWords(ds, i + 1)

\* The lexemes of the grammatical modules: MODULE M with up to n
\* procedures named P, Q, P, ...
ModuleWords(n) ==
    { <<"MODULE", "M", ";">> \o DeclsWords(ds, 1) \o <<"END", ".">> :
        ds \in SeqUpTo(BOOLEAN \X BOOLEAN, n) }

\* The lexemes put in place of, or in front of, a lexeme of a module
OtherWords == {"PROCEDURE", "END", ";", ".", ":", "*", "X", "1", "#"}

\* The source texts handed to the parser: each grammatical module, and each
\* with one lexeme replaced, removed or added
ParseTexts(n) ==
    LET variants(ws) ==
            {ws}
            \cup {[ws EXCEPT ![i] = w] : i \in 1..Len(ws), w \in OtherWords}
            \cup {SubSeq(ws, 1, i - 1) \o SubSeq(ws, i + 1, Len(ws)) : i \in 1..Len(ws)}
            \cup {SubSeq(ws, 1, i - 1) \o <<w>> \o SubSeq(ws, i, Len(ws)) :
                    i \in 1..(Len(ws) + 1), w \in OtherWords}
    IN  {TextOf(v) : v \in UNION {variants(ws) : ws \in ModuleWords(n)}}

\* Before Parser::new(source)
InitParse ==
    /\ text \in ParseTexts(MaxProcs)
    /\ parser = None
    /\ ppc = "new"
    /\ builder_module = BuilderModuleNew
    /\ builder = BuilderProcNew
    /\ proc = None
    /\ presult = Running
    /\ InitTableIdle
    /\ InitCompileIdle
    /\ InitEmitIdle
    /\ InitScanIdle
    /\ InitDriverIdle

NextParse ==
    \/ ParserNew
    \/ ModuleKeyword
    \/ ModuleName
    \/ ModuleSemicolon
    \/ DeclProcedure
    \/ ProcName
    \/ ProcStar
    \/ ProcColon
    \/ ProcType
    \/ ProcSemicolon
    \/ ProcEnd
    \/ DeclSemicolon
    \/ ModuleEnd
    \/ ModuleDot
    \/ ModuleEof

SpecParse == InitParse /\ [][NextParse]_vars

-----------------------------------------------------------------------------
(* Properties of the parser *)

\* The results of calling next_token on sc until the first Eof or error
RECURSIVE TokenizeFrom(_)
TokenizeFrom(sc) ==
    LET r == next_token(sc)
    IN  IF r.res.kind = "Err" \/ r.res.value.tag = TagEof THEN <<r.res>>
        ELSE <<r.res>> \o TokenizeFrom(r.sc)

Tokenize(src) == TokenizeFrom(ScannerNew(src))

\* Every token of the text scans without error
Scans(rs) == rs[Len(rs)].kind = "Ok"

\* The tokens of a text that scans, the last one being Eof
TokensOf(rs) == [i \in 1..Len(rs) |-> rs[i].value]

\* The grammar
\*   Module = MODULE Identifier ; { PROCEDURE Identifier [*] [: Identifier] ; END ; } END . Eof
\* as the transitions of an automaton over the kinds of token
Grammar ==
    { <<"start", "Module", "name">>,
      <<"name", "Identifier", "semi">>,
      <<"semi", "Semicolon", "decls">>,
      <<"decls", "Procedure", "pname">>,
      <<"pname", "Identifier", "pafter">>,
      <<"pafter", "Star", "pstar">>,
      <<"pafter", "Colon", "ptype">>,
      <<"pafter", "Semicolon", "pbody">>,
      <<"pstar", "Colon", "ptype">>,
      <<"pstar", "Semicolon", "pbody">>,
      <<"ptype", "Identifier", "ptyped">>,
      <<"ptyped", "Semicolon", "pbody">>,
      <<"pbody", "End", "pend">>,
      <<"pend", "Semicolon", "decls">>,
      <<"decls", "End", "mend">>,
      <<"mend", "Dot", "mdot">>,
      <<"mdot", "Eof", "accept">> }

\* The kinds of token that may follow in grammar state q
Allowed(q) == {g[2] : g \in {h \in Grammar : h[1] = q}}

\* The grammar state reached from q on toks[k..], and the index of the first
\* token that cannot continue the grammar (Len(toks) + 1 if there is none)
RECURSIVE GrammarRun(_, _, _)
GrammarRun(q, toks, k) ==
    IF k > Len(toks) \/ toks[k].tag[1] \notin Allowed(q) THEN [q |-> q, k |-> k]
    ELSE GrammarRun((CHOOSE g \in Grammar : g[1] = q /\ g[2] = toks[k].tag[1])[3],
                    toks, k + 1)

\* The token sequence is derived by the grammar
Derived(toks) ==
    LET run == GrammarRun("start", toks, 1)
    IN  run.q = "accept" /\ run.k = Len(toks) + 1

\* The token tags the grammar derives for a module
DeclTags(d) ==
    <<TagProcedure, TagIdentifier(d.name)>>
        \o (IF d.export THEN <<TagStar>> ELSE <<>>)
        \o (IF IsSome(d.tid_return) THEN <<TagColon, TagIdentifier(Unwrap(d.tid_return))>>
            ELSE <<>>)
        \o <<TagSemicolon, TagEnd, TagSemicolon>>

RECURSIVE DeclsTags(_)
DeclsTags(ds) == IF ds = <<>> THEN <<>> ELSE DeclTags(Head(ds)) \o DeclsTags(Tail(ds))

ModuleTags(m) ==
    <<TagModule, TagIdentifier(m.name), TagSemicolon>> \o DeclsTags(m.decls)
        \o <<TagEnd, TagDot, TagEof>>

\* The index, among the tokens of module m, of the name of its k-th declaration
NameIndex(m, k) == 3 + Len(DeclsTags(SubSeq(m.decls, 1, k - 1))) + 2

\* Parser::new failed or Parser::module returned
ParseReturned == ppc \in {"done", "failed"}

\* C4: Parser::module succeeds exactly on the token sequences the grammar
\* derives, and the module it returns has the module name and one declaration
\* for each PROCEDURE, in source order, with its name, its export flag (true
\* iff "*" was present) and its return type identifier (present iff
\* ": Identifier" was present).
C4_ParsesGrammar ==
    ParseReturned =>
        LET rs == Tokenize(text)
        IN  /\ (presult.kind = "Ok") <=> (Scans(rs) /\ Derived(TokensOf(rs)))
            /\ presult.kind = "Ok" =>
                 /\ ppc = "done"
                 /\ ModuleTags(presult.value) = [i \in 1..Len(rs) |-> rs[i].value.tag]
                 /\ \A k \in 1..Len(presult.value.decls) :
                      presult.value.decls[k].line = rs[NameIndex(presult.value, k)].value.line

C4_Witness ==
    /\ ppc = "done"
    /\ presult = Ok([name |-> "M",
                     decls |-> <<DeclProc("P", 2, TRUE, None),
                                 DeclProc("Q", 4, FALSE, Some("INTEGER"))>>])

\* C5: when every token of the source scans but the token sequence is not
\* grammatical, Parser::module fails at the first token that cannot continue
\* the grammar, with ExpectedToken{expected, got}, or ExpectedIdentifier{got}
\* where an identifier is required; got is that token's tag and the error
\* line that token's line; the token is not consumed (it is still the
\* parser's current token and the scanner stands right after it) and no
\* module is returned.
C5_FirstSyntaxError ==
    LET rs == Tokenize(text)
    IN  (ParseReturned /\ Scans(rs) /\ ~ Derived(TokensOf(rs))) =>
            LET toks == TokensOf(rs)
                run == GrammarRun("start", toks, 1)
                t == toks[run.k]
            IN  /\ run.k <= Len(toks)
                /\ presult.kind = "Err"
                /\ ppc = "failed"
                /\ presult.line = t.line
                /\ IF Allowed(run.q) = {"Identifier"}
                   THEN presult.tag = ExpectedIdentifier(t.tag)
                   ELSE /\ presult.tag[1] = "ExpectedToken"
                        /\ presult.tag[2][1] \in Allowed(run.q)
                        /\ presult.tag[3] = t.tag
                /\ IsSome(parser)
                /\ Unwrap(parser).current = t
                /\ next_token(Unwrap(parser).scanner).res
                      = Ok(IF run.k < Len(toks) THEN toks[run.k + 1] ELSE t)

C5_Witness ==
    /\ ppc = "failed"
    /\ presult = Err(ExpectedToken(TagSemicolon, TagEnd), 2)
    /\ Unwrap(parser).current = Token(TagEnd, 2)
    /\ Scans(Tokenize(text))

\* The tags is_match is probed with: every tag without a payload, an
\* identifier, an integer, and the current token's own tag
ProbeTags(p) ==
    {TagBegin, TagColon, TagDot, TagEnd, TagEof, TagModule, TagProcedure,
     TagReturn, TagSemicolon, TagStar, TagIdentifier("X"), TagInteger("1"),
     p.current.tag}

\* C14 as stated: for every parser state and every tag is_match returns
\* without error, true having advanced by exactly one token when the current
\* token's tag equals tag, false with the parser unchanged otherwise.
C14_Original ==
    IsSome(parser) =>
        \A tag \in ProbeTags(Unwrap(parser)) :
            LET p == Unwrap(parser)
                r == is_match(p, tag)
            IN  /\ r.res.kind = "Ok"
                /\ p.current.tag = tag =>
                        /\ r.res.value = TRUE
                        /\ Ok(r.p.current) = NthCall(p.scanner, 1)
                        /\ next_token(r.p.scanner).res = NthCall(p.scanner, 2)
                /\ p.current.tag # tag => r = [res |-> Ok(FALSE), p |-> p]

\* C14: is_match never fails on a mismatch, where it returns false and leaves
\* the current token and the scanner as they were. On a match it makes one
\* next_token call: when that returns a token, is_match returns true and has
\* advanced by exactly that token; when that fails, is_match returns the
\* scanner's error and the current token stays the matched one.
C14_IsMatchProbe ==
    IsSome(parser) =>
        \A tag \in ProbeTags(Unwrap(parser)) :
            LET p == Unwrap(parser)
                r == is_match(p, tag)
                n == NthCall(p.scanner, 1)
            IN  /\ (p.current.tag = tag /\ n.kind = "Ok") =>
                        /\ r.res = Ok(TRUE)
                        /\ r.p.current = n.value
                        /\ next_token(r.p.scanner).res = NthCall(p.scanner, 2)
                /\ (p.current.tag = tag /\ n.kind = "Err") =>
                        /\ r.res = n
                        /\ n.tag[1] \in {"UnexpectedCharacter", "UnterminatedComment"}
                        /\ r.p.current = p.current
                /\ p.current.tag # tag => r = [res |-> Ok(FALSE), p |-> p]

\* decl() matched PROCEDURE and the scanner then met a "#": module() has
\* failed with the scanner's error and the current token is still PROCEDURE
C14_Witness ==
    /\ ppc = "failed"
    /\ presult.kind = "Err"
    /\ presult.tag = UnexpectedCharacter("#")
    /\ IsSome(parser)
    /\ Unwrap(parser).current.tag = TagProcedure

\* decl() matched PROCEDURE and advanced to the name
C14_WitnessMatched ==
    /\ ppc = "proc_name"
    /\ Unwrap(parser).current.tag = TagIdentifier("P")

\* C16: Eof is absorbing. Once the parser's scanner has no current character
\* every next_token call returns Eof with the scanner's line and never an
\* error; once the parser's current token is Eof every further call returns
\* that same token; so after Parser::module has succeeded, having consumed
\* the Eof token through expect, the current token is still Eof.
C16_EofAbsorbing ==
    IsSome(parser) =>
        LET p == Unwrap(parser)
        IN  /\ p.scanner.current = None =>
                    \A k \in 1..MaxSrcLen :
                        NthCall(p.scanner, k) = Ok(Token(TagEof, p.scanner.line))
            /\ p.current.tag = TagEof =>
                    \A k \in 1..MaxSrcLen : NthCall(p.scanner, k) = Ok(p.current)
            /\ ppc = "done" => (presult.kind = "Ok" /\ p.current.tag = TagEof)

\* module() has returned a module with a procedure, and the current token is
\* the Eof of line 4, which the next call returns again
C16_Witness ==
    /\ ppc = "done"
    /\ presult.kind = "Ok"
    /\ Len(presult.value.decls) = 1
    /\ Unwrap(parser).current = Token(TagEof, 4)
    /\ next_token(Unwrap(parser).scanner).res = Ok(Token(TagEof, 4))

-----------------------------------------------------------------------------
(* compiler.rs *)

\* create_default_type_table
create_default_type_table == push(TableNew, "INTEGER", TypeInt)

\* lookup_type: a miss is unimplemented!()
lookup_type(tt, tid) ==
    LET t == lookup(tt, tid)
    IN  IF IsSome(t) THEN Ok(Unwrap(t)) ELSE Panic

\* to_type_wat: Int -> I32, anything else is unimplemented!()
to_type_wat(t) ==
    IF t.tag = "Int" THEN Ok(I32) ELSE Panic

\* A faulty redefinition error that loses the declaration's line (the line a
\* reset BuilderProc holds)
redefinition_error_noline(decl_proc) ==
    name_redefinition(decl_proc.name, 0)

\* compile_proc, lines 52-54: the error for a name already in the procedure
\* table carries decl_proc.line
redefinition_error(decl_proc) ==
    name_redefinition(decl_proc.name, decl_proc.line)

\* A faulty export record: every procedure is exported
export_of_always(decl_proc) ==
    Some(Export(decl_proc.name))

\* compile_proc, the export record: Some(Export) iff decl_proc.export
export_of(decl_proc) ==
    IF decl_proc.export THEN Some(Export(decl_proc.name)) ELSE None

\* A faulty compile_proc that resolves the return type before it looks the
\* name up
compile_proc_type_first(tt, tp, decl_proc) ==
    LET t_return == IF IsSome(decl_proc.tid_return)
                    THEN lookup_type(tt, Unwrap(decl_proc.tid_return))
                    ELSE Ok(None)
    IN  IF t_return.kind = "Panic"
        THEN [res |-> Panic, table_proc |-> tp]
        ELSE IF IsSome(lookup(tp, decl_proc.name))
        THEN [res |-> redefinition_error(decl_proc), table_proc |-> tp]
        ELSE LET t_ret == IF decl_proc.tid_return = None THEN None
                          ELSE Some(t_return.value)
                 t_wat == IF decl_proc.tid_return = None THEN None
                          ELSE Some(I32)
             IN  [res |-> Ok([func |-> Func(decl_proc.name, t_wat),
                              export |-> export_of(decl_proc)]),
                  table_proc |-> push(tp, decl_proc.name, TypeProc(t_ret))]

\* A faulty compile_proc that pushes the name before it reports a
\* redefinition
compile_proc_shadowing(tt, tp, decl_proc) ==
    LET resolved == decl_proc.tid_return \in {None, Some("INTEGER")}
        t_ret == IF decl_proc.tid_return = None THEN None ELSE Some(TypeInt)
        t_wat == IF decl_proc.tid_return = None THEN None ELSE Some(I32)
    IN  IF IsSome(lookup(tp, decl_proc.name))
        THEN [res |-> redefinition_error(decl_proc),
              table_proc |-> push(tp, decl_proc.name, TypeProc(None))]
        ELSE IF ~resolved
        THEN [res |-> Panic, table_proc |-> tp]
        ELSE [res |-> Ok([func |-> Func(decl_proc.name, t_wat),
                          export |-> export_of(decl_proc)]),
              table_proc |-> push(tp, decl_proc.name, TypeProc(t_ret))]

\* compile_proc: the result, and the procedure table it leaves
compile_proc(tt, tp, decl_proc) ==
    LET t_return == IF IsSome(decl_proc.tid_return)
                    THEN lookup_type(tt, Unwrap(decl_proc.tid_return))
                    ELSE Ok(None)
        t_return_wat == IF decl_proc.tid_return = None THEN Ok(None)
                        ELSE to_type_wat(t_return.value)
    IN  IF IsSome(lookup(tp, decl_proc.name))
        THEN [res |-> redefinition_error(decl_proc), table_proc |-> tp]
        ELSE IF t_return.kind = "Panic"
        THEN [res |-> Panic, table_proc |-> tp]
        ELSE IF t_return_wat.kind = "Panic"
        THEN [res |-> Panic, table_proc |-> tp]
        ELSE LET t_ret == IF decl_proc.tid_return = None THEN None
                          ELSE Some(t_return.value)
                 t_wat == IF decl_proc.tid_return = None THEN None
                          ELSE Some(t_return_wat.value)
             IN  [res |-> Ok([func |-> Func(decl_proc.name, t_wat),
                              export |-> export_of(decl_proc)]),
                  table_proc |-> push(tp, decl_proc.name, TypeProc(t_ret))]

\* compile_decl: the only variant is Decl::Proc
compile_decl(tt, tp, decl) == compile_proc(tt, tp, decl)

\* A faulty accumulation that puts the new func first
funcs_push_front(fs, func) == <<func>> \o fs

\* compile: funcs.push(func)
funcs_push(fs, func) == Append(fs, func)

\* The source modules given to compile, of up to n declarations, which carry
\* strictly increasing lines (one declaration a line, from line 1 or 2 on)
SrcModules(n) ==
    { [name |-> "M",
       decls |-> [i \in 1..Len(ds) |->
                    DeclProc(ds[i][1], first + i - 1, ds[i][2], ds[i][3])]] :
        first \in {1, 2},
        ds \in SeqUpTo(ProcNames \X BOOLEAN \X ({None} \cup {Some(t) : t \in TypeIds}),
                       n) }

\* compile, lines 14-19: the tables and the accumulators before the loop
InitCompile ==
    /\ module \in SrcModules(MaxDecls)
    /\ table_type = create_default_type_table
    /\ table_proc = TableNew
    /\ funcs = <<>>
    /\ exports = <<>>
    /\ iter = 0
    /\ cresult = Running
    /\ InitTableIdle
    /\ InitEmitIdle
    /\ InitScanIdle
    /\ InitParseIdle
    /\ InitDriverIdle

\* compile, one iteration of the loop over module.decls
CompileDecl ==
    /\ cresult.kind = "Running"
    /\ iter < Len(module.decls)
    /\ LET r == compile_decl(table_type, table_proc, module.decls[iter + 1])
       IN  /\ iter' = iter + 1
           /\ table_proc' = r.table_proc
           /\ IF r.res.kind = "Ok"
              THEN /\ exports' = IF IsSome(r.res.value.export)
                                 THEN Append(exports, Unwrap(r.res.value.export))
                                 ELSE exports
                   /\ funcs' = funcs_push(funcs, r.res.value.func)
                   /\ cresult' = cresult
              ELSE /\ cresult' = r.res
                   /\ UNCHANGED <<funcs, exports>>
    /\ UNCHANGED <<module, table_type>>
    /\ UNCHANGED <<tableVars, emitVars, scanVars, parseVars, driverVars>>

\* compile, after the loop: Ok(wat::Module { name, funcs, exports })
CompileReturn ==
    /\ cresult.kind = "Running"
    /\ iter = Len(module.decls)
    /\ cresult' = Ok(WatModule(module.name, funcs, exports))
    /\ UNCHANGED <<module, table_type, table_proc, funcs, exports, iter>>
    /\ UNCHANGED <<tableVars, emitVars, scanVars, parseVars, driverVars>>

NextCompile == CompileDecl \/ CompileReturn

SpecCompile == InitCompile /\ [][NextCompile]_vars

-----------------------------------------------------------------------------
(* Properties of compile *)

\* The names of a sequence of records with a name field
NamesOf(seq) == [i \in 1..Len(seq) |-> seq[i].name]

\* No two declarations of the module share a name
NoDuplicateNames(m) ==
    \A i, j \in 1..Len(m.decls) : m.decls[i].name = m.decls[j].name => i = j

\* The declaration's return type identifier is absent or names a builtin type
Resolvable(d) == d.tid_return \in {None, Some("INTEGER")}

\* compile has returned or aborted
CompileDone == cresult.kind # "Running"

\* s is an order-preserving subsequence of t
RECURSIVE IsSubseq(_, _)
IsSubseq(s, t) ==
    IF s = <<>> THEN TRUE
    ELSE IF t = <<>> THEN FALSE
    ELSE IF Head(s) = Head(t) THEN IsSubseq(Tail(s), Tail(t))
    ELSE IsSubseq(s, Tail(t))

\* The index of the first declaration whose name repeats an earlier one (0 if none)
FirstRedefinition(m) ==
    LET dup == {j \in 1..Len(m.decls) :
                    \E i \in 1..(j-1) : m.decls[i].name = m.decls[j].name}
    IN  IF dup = {} THEN 0 ELSE CHOOSE j \in dup : \A k \in dup : j <= k

\* C1 as stated: for any module without duplicate procedure names, compile
\* succeeds and funcs holds exactly the declarations' names, in source order.
\* Violated: a declaration whose return type identifier is not in the type
\* table makes lookup_type abort (unimplemented!()).
C1_Original ==
    (CompileDone /\ NoDuplicateNames(module)) =>
        /\ cresult.kind = "Ok"
        /\ Len(cresult.value.funcs) = Len(module.decls)
        /\ NamesOf(cresult.value.funcs) = NamesOf(module.decls)

\* C1 amended: for any module with N procedure declarations, no duplicate
\* procedure names and every declared return type identifier in the builtin
\* type table (INTEGER), compile succeeds and funcs has exactly N entries whose
\* names are the declarations' names in the same order.
C1_RoundTripShape ==
    (CompileDone /\ NoDuplicateNames(module)
                 /\ \A i \in 1..Len(module.decls) : Resolvable(module.decls[i])) =>
        /\ cresult.kind = "Ok"
        /\ cresult.value.name = module.name
        /\ Len(cresult.value.funcs) = Len(module.decls)
        /\ NamesOf(cresult.value.funcs) = NamesOf(module.decls)

C1_Witness ==
    /\ cresult.kind = "Ok"
    /\ Len(module.decls) >= 3
    /\ \E i \in 1..Len(module.decls) : module.decls[i].tid_return = Some("INTEGER")
    /\ NamesOf(cresult.value.funcs) = NamesOf(module.decls)

\* C2: in every module compile returns, an Export named p exists iff the
\* declaration named p has its export flag set, and the export names are an
\* order-preserving subsequence of the func names.
C2_ExportSubset ==
    cresult.kind = "Ok" =>
        LET m == cresult.value
        IN  /\ \A p \in ProcNames :
                 (\E i \in 1..Len(m.exports) : m.exports[i].name = p)
                 <=> (\E i \in 1..Len(module.decls) :
                        module.decls[i].name = p /\ module.decls[i].export)
            /\ IsSubseq(NamesOf(m.exports), NamesOf(m.funcs))

C2_Witness ==
    /\ cresult.kind = "Ok"
    /\ Len(cresult.value.funcs) = 3
    /\ Len(cresult.value.exports) = 2
    /\ ~ module.decls[2].export

\* C3 as stated: two declarations with the same name make compile fail with
\* NameRedefinition(name) at the later declaration's line, nothing after it
\* being processed. Violated: an unresolvable return type identifier in an
\* earlier declaration aborts compile before the duplicate is reached.
C3_Original ==
    LET j == FirstRedefinition(module)
    IN  (CompileDone /\ j > 0) =>
            /\ cresult = Err(<<"NameRedefinition", module.decls[j].name>>,
                             module.decls[j].line)
            /\ iter = j

\* C3 amended: when the module holds declarations with identical names, L2
\* being the line of the first declaration that repeats an earlier name, and
\* every declaration before that one has a return type identifier that is
\* absent or in the type table, compile fails with NameRedefinition(name)
\* carrying line L2, never the earlier line L1, and no declaration after the
\* duplicate is processed.
C3_RedefinitionLine ==
    LET j == FirstRedefinition(module)
    IN  (CompileDone /\ j > 0
            /\ \A i \in 1..(j-1) : Resolvable(module.decls[i])) =>
            /\ cresult = Err(<<"NameRedefinition", module.decls[j].name>>,
                             module.decls[j].line)
            /\ \A i \in 1..(j-1) :
                 module.decls[i].name = module.decls[j].name
                    => cresult.line # module.decls[i].line
            /\ iter = j
            /\ Len(funcs) = j - 1
            /\ Len(table_proc) = j - 1

C3_Witness ==
    /\ cresult.kind = "Err"
    /\ Len(module.decls) = 3
    /\ iter = 2
    /\ module.decls[1].name = module.decls[2].name
    /\ cresult.line = module.decls[2].line
    /\ module.decls[2].tid_return = Some("REAL")

\* C12: after compile_proc succeeds for a declaration named p, the procedure
\* table's lookup of p returns that declaration's signature, exported or not:
\* return type Int when the return type identifier is INTEGER, no return type
\* when it is absent; the Func returned has result I32 in the first case and
\* no result in the second. (The k-th successful call is the k-th declaration,
\* and its Func is funcs[k].)
C12_ProcSignature ==
    \A k \in 1..Len(funcs) :
        LET d == module.decls[k]
        IN  /\ d.tid_return \in {None, Some("INTEGER")}
            /\ lookup(table_proc, d.name) =
                    Some([t_return |-> IF d.tid_return = Some("INTEGER")
                                       THEN Some([tag |-> "Int"]) ELSE None])
            /\ funcs[k] = [name |-> d.name,
                           result |-> IF d.tid_return = Some("INTEGER")
                                      THEN Some("I32") ELSE None]

\* P without a return type and not exported, then Q*: INTEGER, both compiled
C12_Witness ==
    /\ iter = 2
    /\ cresult.kind = "Running"
    /\ ~module.decls[1].export /\ module.decls[1].tid_return = None
    /\ module.decls[2].export /\ module.decls[2].tid_return = Some("INTEGER")
    /\ lookup(table_proc, module.decls[1].name) = Some([t_return |-> None])
    /\ lookup(table_proc, module.decls[2].name) = Some([t_return |-> Some(TypeInt)])
    /\ funcs[1].result = None
    /\ funcs[2].result = Some(I32)

\* The k-th declaration repeats the name of an earlier one
Redefines(m, k) == \E i \in 1..(k - 1) : m.decls[i].name = m.decls[k].name

\* The declaration has a return type identifier the type table does not hold
UnknownType(tt, d) == IsSome(d.tid_return) /\ lookup(tt, Unwrap(d.tid_return)) = None

\* C15: compile_proc checks redefinition before it resolves the return type.
\* For the declaration d compile_proc was last called on: when d's name is
\* already in the procedure table the call fails with NameRedefinition (d's
\* name and line), also when d's return type identifier is not in the type
\* table; when d's name is new and its return type identifier is not in the
\* type table the call yields no Error value (it aborts) and the procedure
\* table has no entry for d's name.
C15_RedefinitionFirst ==
    iter >= 1 =>
        LET d == module.decls[iter]
        IN  /\ Redefines(module, iter) =>
                    cresult = [kind |-> "Err", tag |-> <<"NameRedefinition", d.name>>,
                               line |-> d.line]
            /\ (~Redefines(module, iter) /\ UnknownType(table_type, d)) =>
                    /\ cresult.kind = "Panic"
                    /\ lookup(table_proc, d.name) = None

\* P, then P again with the unknown return type REAL: NameRedefinition
C15_Witness ==
    /\ iter = 2
    /\ Redefines(module, 2)
    /\ UnknownType(table_type, module.decls[2])
    /\ cresult.kind = "Err"
    /\ cresult.tag[1] = "NameRedefinition"

\* P, then the new name Q with the unknown return type REAL: an abort, and Q
\* is not in the table
C15_WitnessAbort ==
    /\ iter = 2
    /\ ~Redefines(module, 2)
    /\ UnknownType(table_type, module.decls[2])
    /\ cresult = Panic
    /\ NamesOf(table_proc) = <<module.decls[1].name>>

\* The number of declarations compile_proc has succeeded on
Compiled == IF cresult.kind \in {"Err", "Panic"} THEN iter - 1 ELSE iter

\* C17: throughout compile, after each declaration has been processed the
\* procedure table holds exactly one entry per declaration compiled so far, in
\* declaration order and with pairwise distinct names (no entry is shadowed:
\* each name's lookup is its own entry), and the builtin type table holds
\* exactly the INTEGER entry it was seeded with.
C17_TablesDuringCompile ==
    /\ Len(table_proc) = Compiled
    /\ \A k \in 1..Len(table_proc) :
            /\ table_proc[k].name = module.decls[k].name
            /\ lookup(table_proc, table_proc[k].name) = Some(table_proc[k].value)
    /\ \A i, j \in 1..Len(table_proc) :
            table_proc[i].name = table_proc[j].name => i = j
    /\ table_type = <<[name |-> "INTEGER", value |-> [tag |-> "Int"]]>>

\* Three declarations, the third repeating the first: the table holds the
\* first two and compile has failed
C17_Witness ==
    /\ iter = 3
    /\ Len(module.decls) = 3
    /\ module.decls[3].name = module.decls[1].name
    /\ cresult.kind = "Err"
    /\ NamesOf(table_proc) = <<module.decls[1].name, module.decls[2].name>>

-----------------------------------------------------------------------------
(* table.rs: a Table driven by arbitrary push and lookup calls *)

InitTable ==
    /\ items = TableNew
    /\ op = <<"new">>
    /\ found = None
    /\ pushed = <<>>
    /\ InitCompileIdle
    /\ InitEmitIdle
    /\ InitScanIdle
    /\ InitParseIdle
    /\ InitDriverIdle

\* Table::push(name, value)
TablePush ==
    \E name \in TableNames, value \in TableValues :
        /\ Len(items) < MaxItems
        /\ items' = push(items, name, value)
        /\ op' = <<"push", name, value>>
        /\ pushed' = Append(pushed, <<name, value>>)
        /\ UNCHANGED found
        /\ UNCHANGED <<compileVars, emitVars, scanVars, parseVars, driverVars>>

\* Table::lookup(name): takes &self, the table is not written
TableLookup ==
    \E name \in TableNames :
        /\ found' = lookup(items, name)
        /\ op' = <<"lookup", name>>
        /\ UNCHANGED <<items, pushed>>
        /\ UNCHANGED <<compileVars, emitVars, scanVars, parseVars, driverVars>>

NextTable == TablePush \/ TableLookup

SpecTable == InitTable /\ [][NextTable]_vars

\* The value of the last pair of h with the given name, if any
LastPushed(h, name) ==
    LET idx == {i \in 1..Len(h) : h[i][1] = name}
    IN  IF idx = {} THEN None
        ELSE Some(h[CHOOSE i \in idx : \A k \in idx : k <= i][2])

\* C6: lookup(name) returns the value of the last-pushed entry with that name,
\* or none when no entry has that name, and every pushed entry remains in the
\* table: after pushing (name, v) then (name, w), lookup(name) is w and the
\* table length is 2.
C6_LookupMostRecent ==
    /\ Len(items) = Len(pushed)
    /\ \A i \in 1..Len(pushed) : items[i] = Item(pushed[i][1], pushed[i][2])
    /\ op[1] = "lookup" => found = LastPushed(pushed, op[2])
    /\ (op[1] = "lookup" /\ Len(pushed) = 2 /\ pushed[1][1] = op[2]
            /\ pushed[2][1] = op[2])
        => (found = Some(pushed[2][2]) /\ Len(items) = 2)

C6_Witness ==
    /\ op = <<"lookup", "a">>
    /\ pushed = << <<"a", "v">>, <<"a", "w">> >>
    /\ found = Some("w")
    /\ Len(items) = 2
    /\ items[1].value = "v"

\* C7: entries are never removed or reordered: a push leaves the previous
\* item sequence as a prefix and grows the length by exactly one, a lookup
\* leaves the item sequence unchanged.
C7_AppendOnly ==
    [][ /\ op'[1] = "push" =>
            /\ Len(items') = Len(items) + 1
            /\ SubSeq(items', 1, Len(items)) = items
            /\ items'[Len(items')] = Item(op'[2], op'[3])
        /\ op'[1] = "lookup" => items' = items
      ]_vars

C7_Witness ==
    /\ op[1] = "lookup"
    /\ Len(items) = 3
    /\ items[1].name = items[3].name
    /\ found = Some(items[3].value)

-----------------------------------------------------------------------------
(* emission.rs *)

\* emit_module, lines 13-20: the loop over module.funcs
RECURSIVE emit_funcs(_, _)
emit_funcs(c, fs) ==
    IF fs = <<>> THEN c
    ELSE emit_funcs(c \o "    " \o "(func $" \o Head(fs).name \o "\n"
                      \o "    " \o ")\n",
                    Tail(fs))

\* emit_module, lines 22-29: the loop over module.exports
RECURSIVE emit_exports(_, _)
emit_exports(c, es) ==
    IF es = <<>> THEN c
    ELSE emit_exports(c \o "    " \o "(export \"" \o Head(es).name
                        \o "\" (func $" \o Head(es).name \o "))\n",
                      Tail(es))

\* A faulty emitter that writes the exports before the funcs
emit_module_exports_first(m) ==
    LET header == "(module $" \o m.name \o "\n"
    IN  emit_funcs(emit_exports(header, m.exports), m.funcs) \o ")\n"

\* emit_module
emit_module(m) ==
    LET header == "" \o "(module $" \o m.name \o "\n"
    IN  emit_exports(emit_funcs(header, m.funcs), m.exports) \o ")\n"

\* The WAT modules given to emit_module
WatModules(nf, ne) ==
    { WatModule(n, fs, es) :
        n \in ModuleNames,
        fs \in SeqUpTo({Func(p, r) : p \in ProcNames, r \in {None, Some(I32)}}, nf),
        es \in SeqUpTo({Export(p) : p \in ProcNames}, ne) }

InitEmit ==
    /\ wmodule \in WatModules(MaxFuncs, MaxExports)
    /\ code = None
    /\ InitTableIdle
    /\ InitCompileIdle
    /\ InitScanIdle
    /\ InitParseIdle
    /\ InitDriverIdle

\* let code = emit_module(&module)
Emit ==
    /\ code = None
    /\ code' = Some(emit_module(wmodule))
    /\ UNCHANGED wmodule
    /\ UNCHANGED <<tableVars, compileVars, scanVars, parseVars, driverVars>>

NextEmit == Emit

SpecEmit == InitEmit /\ [][NextEmit]_vars

\* The lines of the fixed template, from the names alone
TemplateLines(name, funcNames, exportNames) ==
    <<"(module $" \o name>>
    \o [i \in 1..(2 * Len(funcNames)) |->
            IF i % 2 = 1 THEN "    (func $" \o funcNames[(i + 1) \div 2]
            ELSE "    )"]
    \o [i \in 1..Len(exportNames) |->
            "    (export \"" \o exportNames[i] \o "\" (func $" \o exportNames[i] \o "))"]
    \o <<")">>

\* Each line followed by a newline
RECURSIVE Unlines(_)
Unlines(ls) == IF ls = <<>> THEN "" ELSE Head(ls) \o "\n" \o Unlines(Tail(ls))

\* C10: emit_module is total and its output is exactly the fixed template,
\* built from the module name, the func names and the export names alone (a
\* func's result type never changes the text); a module named M with no funcs
\* and no exports emits "(module $M\n)\n".
C10_EmitTemplate ==
    IsSome(code) =>
        /\ Unwrap(code) = Unlines(TemplateLines(wmodule.name, NamesOf(wmodule.funcs),
                                                NamesOf(wmodule.exports)))
        /\ (wmodule = WatModule("M", <<>>, <<>>) => Unwrap(code) = "(module $M\n)\n")

C10_Witness ==
    /\ wmodule = WatModule("M", <<Func("P", Some(I32)), Func("Q", None)>>, <<Export("Q")>>)
    /\ code = Some("(module $M\n    (func $P\n    )\n    (func $Q\n    )\n    (export \"Q\" (func $Q))\n)\n")

-----------------------------------------------------------------------------
(* main.rs: compile_file *)

MaxDriverProcs == 1 \* PROCEDURE declarations of a generated file given to compile_file

\* A std::io::Error, boxed by `?`
IoError == [kind |-> "Io"]

\* The modules that declare the procedure P twice
DuplicateWords ==
    { <<"MODULE", "M", ";">> \o DeclWords("P", d[1], d[2]) \o DeclWords("P", d[3], d[4])
        \o <<"END", ".">> : d \in BOOLEAN \X BOOLEAN \X BOOLEAN \X BOOLEAN }

\* The contents of the file at `path`
DriverTexts(n) == ParseTexts(n) \cup {TextOf(ws) : ws \in DuplicateWords}

\* Before compile_file(path); text is what the file at path holds
InitDriver ==
    /\ dpc = "read"
    /\ invoked = <<>>
    /\ file = None
    /\ dresult = Running
    /\ text \in DriverTexts(MaxDriverProcs)
    /\ parser = None
    /\ ppc = "idle"
    /\ builder_module = BuilderModuleNew
    /\ builder = BuilderProcNew
    /\ proc = None
    /\ presult = Running
    /\ InitTableIdle
    /\ InitCompileIdle
    /\ InitEmitIdle
    /\ InitScanIdle

\* compile_file returns the error `?` propagates
DriverFail(e) ==
    /\ dresult' = e
    /\ dpc' = "failed"

\* line 34: fs::read_to_string(path)?, which the file system may refuse; then
\* the call of Parser::new (line 38)
ReadSource ==
    /\ dpc = "read"
    /\ \E ok \in BOOLEAN :
        IF ok
        THEN /\ dpc' = "parse"
             /\ ppc' = "new"
             /\ invoked' = invoked \o <<"read", "parse">>
             /\ UNCHANGED dresult
        ELSE /\ DriverFail(IoError)
             /\ invoked' = Append(invoked, "read")
             /\ UNCHANGED ppc
    /\ UNCHANGED <<text, parser, builder_module, builder, proc, presult, file>>
    /\ UNCHANGED <<tableVars, compileVars, emitVars, scanVars>>

\* lines 38-39: Parser::new(&source) and parser.module() run
ParseStage ==
    /\ dpc = "parse"
    /\ NextParse

\* A faulty driver that hands whatever the parser has built to compile
TryParse_unchecked ==
    /\ dpc = "parse"
    /\ ppc \in {"done", "failed"}
    /\ module' = IF presult.kind = "Ok" THEN presult.value
                 ELSE build_module(builder_module)
    /\ table_type' = create_default_type_table
    /\ table_proc' = TableNew
    /\ funcs' = <<>>
    /\ exports' = <<>>
    /\ iter' = 0
    /\ cresult' = Running
    /\ dpc' = "compile"
    /\ invoked' = Append(invoked, "compile")
    /\ UNCHANGED <<file, dresult>>
    /\ UNCHANGED <<tableVars, emitVars, scanVars, parseVars>>

\* lines 38-39: the `?` on Parser::new and on parser.module(); line 43: the
\* call of compile(&module), whose lines 14-19 set up the tables
TryParse ==
    /\ dpc = "parse"
    /\ ppc \in {"done", "failed"}
    /\ IF presult.kind = "Ok"
       THEN /\ module' = presult.value
            /\ table_type' = create_default_type_table
            /\ table_proc' = TableNew
            /\ funcs' = <<>>
            /\ exports' = <<>>
            /\ iter' = 0
            /\ cresult' = Running
            /\ dpc' = "compile"
            /\ invoked' = Append(invoked, "compile")
            /\ UNCHANGED dresult
       ELSE /\ DriverFail(presult)
            /\ UNCHANGED invoked
            /\ UNCHANGED compileVars
    /\ UNCHANGED file
    /\ UNCHANGED <<tableVars, emitVars, scanVars, parseVars>>

\* line 43: compile(&module) runs
CompileStage ==
    /\ dpc = "compile"
    /\ NextCompile

\* line 43: the `?` on compile (a panic aborts the process); line 47: the
\* call of emit_module(&module)
TryCompile ==
    /\ dpc = "compile"
    /\ cresult.kind # "Running"
    /\ IF cresult.kind = "Ok"
       THEN /\ wmodule' = cresult.value
            /\ code' = None
            /\ dpc' = "emit"
            /\ invoked' = Append(invoked, "emit")
            /\ UNCHANGED dresult
       ELSE /\ DriverFail(cresult)
            /\ UNCHANGED invoked
            /\ UNCHANGED emitVars
    /\ UNCHANGED file
    /\ UNCHANGED <<tableVars, compileVars, scanVars, parseVars>>

\* line 47: emit_module(&module) runs
EmitStage ==
    /\ dpc = "emit"
    /\ NextEmit

\* lines 50-51: fs::File::create(format!("{}.wat", module.name))?, which the
\* file system may refuse
FileCreate ==
    /\ dpc = "emit"
    /\ IsSome(code)
    /\ invoked' = Append(invoked, "create")
    /\ \E ok \in BOOLEAN :
        IF ok
        THEN /\ file' = Some([path |-> wmodule.name \o ".wat", contents |-> ""])
             /\ dpc' = "write"
             /\ UNCHANGED dresult
        ELSE /\ DriverFail(IoError)
             /\ UNCHANGED file
    /\ UNCHANGED <<tableVars, compileVars, emitVars, scanVars, parseVars>>

\* line 52: file.write_all(code.as_bytes())?; line 54: Ok(())
WriteAll ==
    /\ dpc = "write"
    /\ invoked' = Append(invoked, "write")
    /\ \E ok \in BOOLEAN :
        IF ok
        THEN /\ file' = Some([Unwrap(file) EXCEPT !.contents = Unwrap(code)])
             /\ dresult' = Ok(<<>>)
             /\ dpc' = "done"
        ELSE /\ DriverFail(IoError)
             /\ UNCHANGED file
    /\ UNCHANGED <<tableVars, compileVars, emitVars, scanVars, parseVars>>

NextDriver ==
    \/ ReadSource
    \/ ParseStage
    \/ TryParse
    \/ CompileStage
    \/ TryCompile
    \/ EmitStage
    \/ FileCreate
    \/ WriteAll

SpecDriver == InitDriver /\ [][NextDriver]_vars

-----------------------------------------------------------------------------
(* Properties of the driver *)

\* The calls of compile_file, in the order of its text
Pipeline == <<"read", "parse", "compile", "emit", "create", "write">>

\* C11: in the driver pipeline a failure in any stage stops the pipeline: once
\* the parser has returned an error nothing of compile, emit or the file is
\* touched and no further call is made; once compile has failed (an error or
\* an abort) nothing of emit or the file is touched and no further call is
\* made; once compile_file has returned nothing happens at all; the calls are
\* made in pipeline order; and the output file exists only when the parser and
\* compile returned Ok and the emitter has produced the text of the compiled
\* module.
C11_FailFast ==
    [][ /\ (presult.kind = "Err" => UNCHANGED <<compileVars, emitVars, file, invoked>>)
        /\ (cresult.kind \in {"Err", "Panic"} => UNCHANGED <<emitVars, file, invoked>>)
        /\ (dresult.kind # "Running" => UNCHANGED vars)
        /\ invoked' = SubSeq(Pipeline, 1, Len(invoked'))
        /\ (IsSome(file') =>
                /\ presult'.kind = "Ok"
                /\ cresult'.kind = "Ok"
                /\ code' = Some(emit_module(cresult'.value))
                /\ SubSeq(invoked', 1, 5) = SubSeq(Pipeline, 1, 5)) ]_vars

\* compile has failed on a redefinition: compile_file has returned that error
\* after three calls and there is no file
C11_Witness ==
    /\ dpc = "failed"
    /\ presult.kind = "Ok"
    /\ cresult.kind = "Err"
    /\ dresult = cresult
    /\ invoked = <<"read", "parse", "compile">>
    /\ code = None
    /\ file = None

\* the whole pipeline has run and the file holds the emitted text
C11_WitnessWritten ==
    /\ dpc = "done"
    /\ dresult = Ok(<<>>)
    /\ invoked = Pipeline
    /\ file = Some([path |-> "M.wat", contents |-> Unwrap(code)])

====
